---- MODULE Spec2Model ----
(***************************************************************************)
(* A model of quickbooks-sync: the reconciliation engine                   *)
(* (QuickBooksEngine.syncProduct of src/quickbooks_engine.js) run against  *)
(* an accounting store, and the variant validator (validateProductVariants *)
(* of src/unnamed/part_000, the shopify engine).                           *)
(*                                                                         *)
(* JavaScript values: scalars are strings ("null" and "undefined" stand    *)
(* for the two JavaScript values), objects are records, and a slot that    *)
(* holds an object or null holds a record or NullObj.                      *)
(***************************************************************************)
EXTENDS Integers, Sequences, FiniteSets, TLC

VARIABLES
    items,              \* the store's inventory items, in Id order
    categories,         \* the store's category items, in Id order
    accounts,           \* the names of the ledger accounts the store holds
    pc,                 \* the await at which syncProduct stands
    product,            \* syncProduct's argument
    latest_category,    \* syncProduct's local of that name
    same_name_product,  \* syncProduct's local of that name
    existing_product,   \* syncProduct's local of that name
    account_refs,       \* syncProduct's local "accounts"
    log,                \* the capability invocations of the current call
    result,             \* how the last call ended: "ok", an error, or "none"
    repeat,             \* the current call repeats the previous, successful one
    variants,           \* validateProductVariants' argument
    vidx,               \* the position forEach has reached
    existing_names,     \* validateProductVariants' local of that name
    existing_skus,      \* validateProductVariants' local of that name
    existing_barcodes,  \* validateProductVariants' local of that name
    results,            \* validateProductVariants' local of that name
    report,             \* validateProductVariants' return value
    run,                \* the current call is the "first" on its store, the
                        \* "retry" that follows a failed first call, or "other"
    orig_items,         \* the items of the store the first call was started on
    orig_categories,    \* the categories of that store
    pages,              \* the pages the variant query serves, in cursor order
    fetch_pc,           \* where getAllProductVariants stands
    product_variants,   \* getAllProductVariants' local of that name
    current_cursor,     \* getAllProductVariants' local of that name
    fetches,            \* the cursors getProdutVariants was invoked with
    fetched,            \* getAllProductVariants' outcome: a list or an error
    variant,            \* parseProduct's argument
    parsed,             \* parseProduct's outcome: a product or an error
    synced,             \* the positions of the batch handed to syncProduct so
                        \* far in the pass, in the order they were handed over
    reconciled          \* the Ids of the items the completed calls of the pass
                        \* created, updated or found as they should be

storeVars == <<items, categories, accounts>>
syncVars == <<pc, product, latest_category, same_name_product, existing_product,
              account_refs, log, result, repeat, run>>
validateVars == <<variants, vidx, existing_names, existing_skus, existing_barcodes,
                  results, report>>
origVars == <<orig_items, orig_categories>>
fetchVars == <<pages, fetch_pc, product_variants, current_cursor, fetches, fetched>>
parseVars == <<variant, parsed>>
passVars == <<synced, reconciled>>
restVars == <<origVars, fetchVars, parseVars, passVars>>
vars == <<storeVars, syncVars, validateVars, restVars>>

----------------------------------------------------------------------------
(* JavaScript values *)

Null == "null"
Undefined == "undefined"
NullObj == [null |-> TRUE]
UndefinedObj == [undefined |-> TRUE]

\* obj.field: undefined when the object has no such property
Get(obj, field) == IF field \in DOMAIN obj THEN obj[field] ELSE Undefined

\* { ...a, ...b }: b's properties override a's
Spread(a, b) == b @@ a

\* ToBoolean of an object-or-null slot
TruthyObj(o) == o # NullObj /\ o # UndefinedObj

\* ToBoolean of a string-or-null-or-undefined scalar
TruthyStr(s) == s # Null /\ s # Undefined /\ s # ""

----------------------------------------------------------------------------
(* Bounds and input sets of the reconciliation model *)

MaxInitItems == 2

ProductNames == {"A", "B"}
Skus == {"S1", "S2"}
Errors == {"ENET", "EAUTH"}

IncomeAccount == "Sales of Product Income"
ExpenseAccount == "Cost of Goods Sold"
AssetAccount == "Inventory Asset"
AccountNames == {IncomeAccount, ExpenseAccount, AssetAccount}

\* the NormalizedProducts handed to syncProduct
Products ==
    [name : ProductNames, category : {Null, "c1"}, sku : Skus,
     description : {"d1"}, unit_price : {"1"}, purchase_cost : {"1"},
     taxable : BOOLEAN]

ItemFields ==
    {"Id", "Name", "Sku", "Description", "PurchaseDesc", "UnitPrice",
     "PurchaseCost", "Taxable", "SubItem", "ParentRef", "Active", "Type",
     "TrackQtyOnHand", "QtyOnHand", "InvStartDate",
     "IncomeAccountRef", "ExpenseAccountRef", "AssetAccountRef"}

Today == "2020-07-01"

AccountId(name) == "acc:" \o name
AccountRefOf(name) == [value |-> AccountId(name), name |-> name]

\* an item as the store returns it
Item(id, name, sku, desc, pdesc, price, cost, taxable, parent, active) ==
    [Id |-> id, Name |-> name, Sku |-> sku, Description |-> desc,
     PurchaseDesc |-> pdesc, UnitPrice |-> price, PurchaseCost |-> cost,
     Taxable |-> taxable, SubItem |-> TruthyObj(parent), ParentRef |-> parent,
     Active |-> active, Type |-> "Inventory",
     TrackQtyOnHand |-> TRUE, QtyOnHand |-> "0", InvStartDate |-> Today,
     IncomeAccountRef |-> AccountRefOf(IncomeAccount),
     ExpenseAccountRef |-> AccountRefOf(ExpenseAccount),
     AssetAccountRef |-> AccountRefOf(AssetAccount)]

\* the content an item of the initial store may carry: in step with the
\* products above, or off in one field
InitContents ==
    {<<"d1", "d1", "1", "1", TRUE, NullObj, TRUE>>,
     <<"d1", "d1", "1", "1", TRUE, NullObj, FALSE>>,
     <<"d2", "d1", "1", "1", TRUE, NullObj, TRUE>>,
     <<"d1", "d2", "1", "1", TRUE, NullObj, TRUE>>,
     <<"d1", "d1", "1", "2", TRUE, NullObj, TRUE>>,
     <<"d1", "d1", "1", "1", FALSE, NullObj, TRUE>>,
     <<"d1", "d1", "1", "1", TRUE, [value |-> "7", name |-> "c0"], TRUE>>}

\* the content of the later items of the initial store
LaterContents ==
    {<<"d1", "d1", "2", "1", TRUE, NullObj, TRUE>>}

InitNames == ProductNames \cup {"_S1"}

InitItem(id, shape) ==
    Item(id, shape[1], shape[2], shape[3][1], shape[3][2], shape[3][3],
         shape[3][4], shape[3][5], shape[3][6], shape[3][7])

InitShapes(k) ==
    InitNames \X Skus \X (IF k = 1 THEN InitContents ELSE LaterContents)

\* the stores the engine may be started on, of at most n items: item names
\* are pairwise distinct (the store refuses a duplicate name,
\* quickbooks_engine.js:201-202), SKUs need not be
InitStore(store, n) ==
    \E m \in 0..n :
        \E g \in [1..m -> InitNames \X Skus \X (InitContents \cup LaterContents)] :
            /\ \A k \in 1..m : g[k] \in InitShapes(k)
            /\ \A j, k \in 1..m : j # k => g[j][1] # g[k][1]
            /\ store = [k \in 1..m |-> InitItem(k, g[k])]

\* the stores that lack one of the three ledger accounts
MissingAccounts == { AccountNames \ {a} : a \in AccountNames }

----------------------------------------------------------------------------
(* The accounting store behind the capabilities of QuickBooksEngine *)

\* res.QueryResponse.Item[0], or null: the first of the records a query matches
FirstOf(seq, matching) ==
    IF matching = {} THEN NullObj
    ELSE seq[CHOOSE i \in matching : \A j \in matching : i <= j]

findProductByName(name) ==
    FirstOf(items, {i \in DOMAIN items : items[i].Name = name})

\* the lookup that finds nothing
findProductBySKUNever(sku) == NullObj

findProductBySKU(sku) ==
    FirstOf(items, {i \in DOMAIN items : items[i].Sku = sku})

\* the lookup that finds nothing
findCategoryNever(name) == NullObj

findCategoryByName(name) ==
    FirstOf(categories, {i \in DOMAIN categories : categories[i].Name = name})

findAccountByName(name) ==
    IF name \in accounts THEN [Id |-> AccountId(name), Name |-> name] ELSE NullObj

\* what the store keeps of a record written to it
StoreItem(rec) == [f \in ItemFields |-> IF f \in DOMAIN rec THEN rec[f] ELSE UndefinedObj]

\* the store refuses a second item of the same name
NameTaken(name, id) ==
    \E i \in DOMAIN items : items[i].Name = name /\ items[i].Id # id

\* client.updateItem with sparse: false replaces the item of that Id
StoreUpdateItem(rec) == [items EXCEPT ![rec.Id] = StoreItem(rec)]

\* client.createItem appends the item under a fresh Id
StoreCreateItem(rec) ==
    Append(items, StoreItem(Spread(rec, [Id |-> Len(items) + 1])))

\* the Id the store gives its k-th category
CategoryId(k) == "cat" \o ToString(k)

StoreCreateCategory(name) ==
    Append(categories, [Id |-> CategoryId(Len(categories) + 1), Name |-> name,
                        Type |-> "Category"])

----------------------------------------------------------------------------
(* QuickBooksEngine.syncProduct, one action per await *)

\* const latest_product = { ... }
LatestProduct(p, cat) ==
    [Name |-> p.name,
     Sku |-> p.sku,
     Description |-> p.description,
     PurchaseDesc |-> p.description,
     UnitPrice |-> p.unit_price,
     PurchaseCost |-> p.purchase_cost,
     Taxable |-> p.taxable,
     SubItem |-> IF TruthyObj(cat) THEN TRUE ELSE FALSE,
     ParentRef |-> IF TruthyObj(cat)
                   THEN [value |-> Get(cat, "value"), name |-> Get(cat, "name")]
                   ELSE NullObj]

latest_product == LatestProduct(product, latest_category)

\* the comparison that never holds
SameSkuNever(found, latest) == FALSE

\* same_name_product.Sku == latest_product.Sku
SameSku(found, latest) == found.Sku = latest.Sku

\* the rename to the bare prefix
RenamedProductBare(found) ==
    Spread(found, [Name |-> "_", Active |-> FALSE, sparse |-> FALSE])

\* { ...same_name_product, Name: `_${same_name_product.Sku}`, Active: false, sparse: false }
RenamedProduct(found) ==
    Spread(found, [Name |-> "_" \o found.Sku, Active |-> FALSE, sparse |-> FALSE])

\* the spread written the other way round: the existing fields win
UpdatedProductStale(existing, latest) ==
    Spread(Spread(latest, existing), [Active |-> TRUE, sparse |-> FALSE])

\* { ...existing_product, ...latest_product, Active: true, sparse: false }
UpdatedProduct(existing, latest) ==
    Spread(Spread(existing, latest), [Active |-> TRUE, sparse |-> FALSE])

\* { ...latest_product, Active: true, TrackQtyOnHand: true, ... }
CreatedProduct(latest, refs) ==
    Spread(latest,
           [Active |-> TRUE, TrackQtyOnHand |-> TRUE, QtyOnHand |-> "0",
            InvStartDate |-> Today, Type |-> "Inventory",
            IncomeAccountRef |-> refs.income_account_ref,
            ExpenseAccountRef |-> refs.expense_account_ref,
            AssetAccountRef |-> refs.asset_account_ref])

SameParentRef(e, l) ==
    \/ ~TruthyObj(e.ParentRef) /\ ~TruthyObj(l.ParentRef)
    \/ /\ TruthyObj(e.ParentRef) /\ TruthyObj(l.ParentRef)
       /\ e.ParentRef.value = l.ParentRef.value

didChangeProductContent(e, l) ==
    ~ ( /\ SameParentRef(e, l)
        /\ e.Name = l.Name
        /\ e.Sku = l.Sku
        /\ e.Description = l.Description
        /\ e.UnitPrice = l.UnitPrice
        /\ e.PurchaseCost = l.PurchaseCost )

\* the condition without its second disjunct
NeedsUpdateIgnoringActive(e, l) == didChangeProductContent(e, l)

\* didChangeProductContent(existing_product, latest_product) || !existing_product.Active
NeedsUpdate(e, l) == didChangeProductContent(e, l) \/ ~e.Active

\* the reduce of resolveAccountRefs over the accounts found
AccountRefs(found) ==
    [income_account_ref |->
        IF \E r \in found : r.Name = IncomeAccount
        THEN AccountRefOf(IncomeAccount) ELSE UndefinedObj,
     expense_account_ref |->
        IF \E r \in found : r.Name = ExpenseAccount
        THEN AccountRefOf(ExpenseAccount) ELSE UndefinedObj,
     asset_account_ref |->
        IF \E r \in found : r.Name = AssetAccount
        THEN AccountRefOf(AssetAccount) ELSE UndefinedObj]

NoRefs == [income_account_ref |-> UndefinedObj, expense_account_ref |-> UndefinedObj,
           asset_account_ref |-> UndefinedObj]

Call(op, arg, res) == [op |-> op, arg |-> arg, res |-> res]
Failed(e) == [error |-> e]
IsFailed(res) == "error" \in DOMAIN res

\* the rejection caught and rethrown as an error of the engine's own
RejectWrapped(e) ==
    /\ pc' = "failed"
    /\ result' = "ReconciliationError"
    /\ UNCHANGED <<latest_category, same_name_product, existing_product, account_refs>>

\* a rejected promise leaves syncProduct at once: nothing is caught
Reject(e) ==
    /\ pc' = "failed"
    /\ result' = e
    /\ UNCHANGED <<latest_category, same_name_product, existing_product, account_refs>>

\* the return of line 235 moved into the if: an unchanged record falls through
AfterResolvedFallingThrough(existing, latest) ==
    IF NeedsUpdate(existing, latest) THEN "updateProduct" ELSE "resolveAccountRefs"

\* the await that follows once an existing record is resolved (lines 224-236)
AfterResolved(existing, latest) ==
    IF NeedsUpdate(existing, latest) THEN "updateProduct" ELSE "done"

\* syncProduct(p) is called, on a new store for the first time and again with
\* the same p after the call has returned; the code runs up to its first await
SyncStart ==
    /\ pc \in {"idle", "done", "failed"}
    /\ \E p \in Products :
        /\ pc # "idle" => p = product
        /\ product' = p
        /\ repeat' = (pc = "done")
        /\ run' = IF pc = "idle" THEN "first"
                  ELSE IF pc = "failed" /\ run = "first" THEN "retry"
                  ELSE "other"
        /\ pc' = IF TruthyStr(p.category) THEN "findCategoryByName"
                 ELSE "findProductByName"
    /\ latest_category' = NullObj
    /\ same_name_product' = NullObj
    /\ existing_product' = NullObj
    /\ account_refs' = NoRefs
    /\ log' = <<>>
    /\ result' = "none"
    /\ UNCHANGED <<storeVars, validateVars, restVars>>

\* await this.findCategoryByName(name), within findOrCreateCategoryByName
FindCategoryByName ==
    /\ pc = "findCategoryByName"
    /\ \/ \E e \in Errors :
            /\ log' = Append(log, Call("findCategoryByName", product.category, Failed(e)))
            /\ Reject(e)
       \/ LET category == findCategoryByName(product.category) IN
            /\ log' = Append(log, Call("findCategoryByName", product.category, category))
            /\ latest_category' = category
            /\ pc' = IF ~TruthyObj(category) THEN "createCategory"
                     ELSE "findProductByName"
            /\ UNCHANGED <<same_name_product, existing_product, account_refs, result>>
    /\ UNCHANGED <<storeVars, product, repeat, run, validateVars, restVars>>

\* await this.createCategory(name), within findOrCreateCategoryByName
CreateCategory ==
    /\ pc = "createCategory"
    /\ \/ \E e \in Errors :
            /\ log' = Append(log, Call("createCategory", product.category, Failed(e)))
            /\ Reject(e)
            /\ UNCHANGED storeVars
       \/ /\ categories' = StoreCreateCategory(product.category)
          /\ latest_category' = categories'[Len(categories')]
          /\ log' = Append(log, Call("createCategory", product.category,
                                     latest_category'))
          /\ pc' = "findProductByName"
          /\ UNCHANGED <<items, accounts, same_name_product, existing_product,
                         account_refs, result>>
    /\ UNCHANGED <<product, repeat, run, validateVars, restVars>>

\* await this.findProductByName(latest_product.Name), and the code up to the
\* next await (lines 203-225)
FindProductByName ==
    /\ pc = "findProductByName"
    /\ \/ \E e \in Errors :
            /\ log' = Append(log, Call("findProductByName", latest_product.Name, Failed(e)))
            /\ Reject(e)
       \/ LET found == findProductByName(latest_product.Name) IN
            /\ log' = Append(log, Call("findProductByName", latest_product.Name, found))
            /\ same_name_product' = found
            /\ IF TruthyObj(found)
               THEN IF SameSku(found, latest_product)
                    THEN /\ existing_product' = found
                         /\ pc' = AfterResolved(found, latest_product)
                         /\ result' = IF pc' = "done" THEN "ok" ELSE result
                    ELSE /\ pc' = "renameProduct"
                         /\ UNCHANGED <<existing_product, result>>
               ELSE /\ pc' = "findProductBySKU"
                    /\ UNCHANGED <<existing_product, result>>
            /\ UNCHANGED <<latest_category, account_refs>>
    /\ UNCHANGED <<storeVars, product, repeat, run, validateVars, restVars>>

\* await this.updateProduct({ ...same_name_product, Name: ..., Active: false })
RenameProduct ==
    /\ pc = "renameProduct"
    /\ LET renamed == RenamedProduct(same_name_product) IN
        \/ \E e \in Errors \cup {"DuplicateName"} :
            /\ e = "DuplicateName" => NameTaken(renamed.Name, renamed.Id)
            /\ log' = Append(log, Call("updateProduct", renamed, Failed(e)))
            /\ Reject(e)
            /\ UNCHANGED storeVars
        \/ /\ ~NameTaken(renamed.Name, renamed.Id)
           /\ items' = StoreUpdateItem(renamed)
           /\ log' = Append(log, Call("updateProduct", renamed, items'[renamed.Id]))
           /\ pc' = "findProductBySKU"
           /\ UNCHANGED <<categories, accounts, latest_category, same_name_product,
                          existing_product, account_refs, result>>
    /\ UNCHANGED <<product, repeat, run, validateVars, restVars>>

\* await this.findProductBySKU(latest_product.Sku), and the code up to the
\* next await (lines 221-239)
FindProductBySKU ==
    /\ pc = "findProductBySKU"
    /\ \/ \E e \in Errors :
            /\ log' = Append(log, Call("findProductBySKU", latest_product.Sku, Failed(e)))
            /\ Reject(e)
       \/ LET found == findProductBySKU(latest_product.Sku) IN
            /\ log' = Append(log, Call("findProductBySKU", latest_product.Sku, found))
            /\ existing_product' = found
            /\ pc' = IF TruthyObj(found) THEN AfterResolved(found, latest_product)
                     ELSE "resolveAccountRefs"
            /\ result' = IF pc' = "done" THEN "ok" ELSE result
            /\ UNCHANGED <<latest_category, same_name_product, account_refs>>
    /\ UNCHANGED <<storeVars, product, repeat, run, validateVars, restVars>>

\* await this.updateProduct({ ...existing_product, ...latest_product, Active: true })
UpdateProduct ==
    /\ pc = "updateProduct"
    /\ LET updated == UpdatedProduct(existing_product, latest_product) IN
        \/ \E e \in Errors \cup {"DuplicateName"} :
            /\ e = "DuplicateName" => NameTaken(updated.Name, updated.Id)
            /\ log' = Append(log, Call("updateProduct", updated, Failed(e)))
            /\ Reject(e)
            /\ UNCHANGED storeVars
        \/ /\ ~NameTaken(updated.Name, updated.Id)
           /\ items' = StoreUpdateItem(updated)
           /\ log' = Append(log, Call("updateProduct", updated, items'[updated.Id]))
           /\ pc' = "done"
           /\ result' = "ok"
           /\ UNCHANGED <<categories, accounts, latest_category, same_name_product,
                          existing_product, account_refs>>
    /\ UNCHANGED <<product, repeat, run, validateVars, restVars>>

\* results.reduce((accounts, r) => { if (r.Name == ...) ... }): reading r.Name
\* of a null result throws
ReduceThrows(found) == \E r \in found : ~TruthyObj(r)

\* const accounts = await this.resolveAccountRefs(): Promise.all of the three
\* account lookups, then the reduce
ResolveAccountRefs ==
    /\ pc = "resolveAccountRefs"
    /\ \E f \in AccountNames \cup {"none"}, e \in Errors :
        LET res(name) == IF name = f THEN Failed(e) ELSE findAccountByName(name)
            found == { res(name) : name \in AccountNames }
        IN  /\ log' = log \o << Call("findAccountByName", IncomeAccount, res(IncomeAccount)),
                                Call("findAccountByName", ExpenseAccount, res(ExpenseAccount)),
                                Call("findAccountByName", AssetAccount, res(AssetAccount)) >>
            /\ IF f # "none"
               THEN Reject(e)
               ELSE IF ReduceThrows(found)
                    THEN Reject("TypeError")
                    ELSE /\ account_refs' = AccountRefs(found)
                         /\ pc' = "createProduct"
                         /\ UNCHANGED <<latest_category, same_name_product,
                                        existing_product, result>>
    /\ UNCHANGED <<storeVars, product, repeat, run, validateVars, restVars>>

\* await this.createProduct({ ...latest_product, Active: true, ... })
CreateProduct ==
    /\ pc = "createProduct"
    /\ LET created == CreatedProduct(latest_product, account_refs) IN
        \/ \E e \in Errors \cup {"DuplicateName"} :
            /\ e = "DuplicateName" => NameTaken(created.Name, 0)
            /\ log' = Append(log, Call("createProduct", created, Failed(e)))
            /\ Reject(e)
            /\ UNCHANGED storeVars
        \/ /\ ~NameTaken(created.Name, 0)
           /\ items' = StoreCreateItem(created)
           /\ log' = Append(log, Call("createProduct", created, items'[Len(items')]))
           /\ pc' = "done"
           /\ result' = "ok"
           /\ UNCHANGED <<categories, accounts, latest_category, same_name_product,
                          existing_product, account_refs>>
    /\ UNCHANGED <<product, repeat, run, validateVars, restVars>>

InitCategories == {<<>>, <<[Id |-> CategoryId(1), Name |-> "c1", Type |-> "Category"]>>}

ValidateIdle ==
    /\ variants = <<>>
    /\ vidx = 0
    /\ existing_names = <<>>
    /\ existing_skus = <<>>
    /\ existing_barcodes = <<>>
    /\ results = <<>>
    /\ report = NullObj

FetchIdle ==
    /\ pages = <<>>
    /\ fetch_pc = "idle"
    /\ product_variants = <<>>
    /\ current_cursor = Null
    /\ fetches = <<>>
    /\ fetched = NullObj

ParseIdle ==
    /\ variant = NullObj
    /\ parsed = NullObj

PassIdle ==
    /\ synced = <<>>
    /\ reconciled = {}

Init ==
    /\ \/ InitStore(items, MaxInitItems) /\ accounts = AccountNames
       \/ InitStore(items, MaxInitItems - 1) /\ accounts \in MissingAccounts
    /\ categories \in InitCategories
    /\ pc = "idle"
    /\ product = NullObj
    /\ latest_category = NullObj
    /\ same_name_product = NullObj
    /\ existing_product = NullObj
    /\ account_refs = NoRefs
    /\ log = <<>>
    /\ result = "none"
    /\ repeat = FALSE
    /\ run = "none"
    /\ orig_items = items
    /\ orig_categories = categories
    /\ ValidateIdle
    /\ FetchIdle
    /\ ParseIdle
    /\ PassIdle

Next ==
    \/ SyncStart
    \/ FindCategoryByName
    \/ CreateCategory
    \/ FindProductByName
    \/ RenameProduct
    \/ FindProductBySKU
    \/ UpdateProduct
    \/ ResolveAccountRefs
    \/ CreateProduct

Spec == Init /\ [][Next]_vars

----------------------------------------------------------------------------
(* What a call did, read off its log *)

WriteOps == {"createCategory", "createProduct", "updateProduct"}

Ended == pc \in {"done", "failed"}

\* the positions of the log at which a capability failed
Failures == {i \in DOMAIN log : IsFailed(log[i].res)}

\* the name lookup returned an item that carries another SKU than the product
Collides(c) ==
    /\ c.op = "findProductByName"
    /\ ~IsFailed(c.res)
    /\ TruthyObj(c.res)
    /\ c.res.Sku # product.sku

\* the lookup resolved an existing record: by name with the product's SKU, or by SKU
Resolves(c) ==
    /\ c.op \in {"findProductByName", "findProductBySKU"}
    /\ ~IsFailed(c.res)
    /\ TruthyObj(c.res)
    /\ c.res.Sku = product.sku

\* the invocation renames `found` to "_" + its own SKU and deactivates it
IsRenameOf(c, found) ==
    /\ c.op = "updateProduct"
    /\ c.arg.Id = found.Id
    /\ c.arg.Sku = found.Sku
    /\ c.arg.Name = "_" \o found.Sku
    /\ c.arg.Active = FALSE

\* the record carries the name, SKU and content of the target record
CarriesTarget(rec) ==
    /\ rec.Name = product.name
    /\ rec.Sku = product.sku
    /\ rec.Description = product.description
    /\ rec.PurchaseDesc = product.description
    /\ rec.UnitPrice = product.unit_price
    /\ rec.PurchaseCost = product.purchase_cost
    /\ rec.Taxable = product.taxable

----------------------------------------------------------------------------
(* C1 *)

\* C1: a call that repeats the previous, successful call with the same product
\* on the store that call left invokes no write capability
C1_Idempotent ==
    repeat => \A i \in DOMAIN log : log[i].op \notin WriteOps

\* a repeated call has run to its end, for a product with a category
C1_Witness ==
    /\ repeat
    /\ pc = "done"
    /\ TruthyStr(product.category)
    /\ Len(log) >= 2

(* C2 *)

\* C2: an item found under the target name with another SKU is renamed to
\* "_" + its own SKU and deactivated by the very next invocation, before any
\* SKU lookup, create or update; and when no item carries the target SKU and
\* no capability fails, the call ends having created an active item with the
\* target name and SKU
C2_NameCollisionGuard ==
    \A i \in DOMAIN log :
        Collides(log[i]) =>
            /\ \A j \in 1..i :
                 log[j].op \notin {"findProductBySKU", "updateProduct", "createProduct"}
            /\ Ended => i < Len(log)
            /\ i < Len(log) =>
                 /\ IsRenameOf(log[i + 1], log[i].res)
                 /\ ~IsFailed(log[i + 1].res) =>
                      /\ items[log[i].res.Id].Name = "_" \o log[i].res.Sku
                      /\ items[log[i].res.Id].Active = FALSE
            /\ ( /\ Ended
                 /\ Failures = {}
                 /\ \E j \in DOMAIN log :
                      log[j].op = "findProductBySKU" /\ log[j].res = NullObj )
               => /\ pc = "done"
                  /\ log[Len(log)].op = "createProduct"
                  /\ log[Len(log)].arg.Name = product.name
                  /\ log[Len(log)].arg.Sku = product.sku
                  /\ log[Len(log)].arg.Active = TRUE
                  /\ \E k \in DOMAIN items :
                       /\ items[k].Name = product.name
                       /\ items[k].Sku = product.sku
                       /\ items[k].Active = TRUE

\* the part of C2 that is about the rename alone
C2_RenameFirst ==
    \A i \in DOMAIN log :
        Collides(log[i]) =>
            /\ \A j \in 1..i :
                 log[j].op \notin {"findProductBySKU", "updateProduct", "createProduct"}
            /\ Ended => i < Len(log)
            /\ i < Len(log) => IsRenameOf(log[i + 1], log[i].res)

(* C3 *)

\* C3: after a call that completes successfully the store holds an active item
\* whose name, SKU, description, purchase description, unit price, purchase
\* cost and taxable flag equal the target's
C3_Converged ==
    pc = "done" =>
        \E k \in DOMAIN items : items[k].Active = TRUE /\ CarriesTarget(items[k])

(* C4 *)

\* C4: when the three account lookups succeed and one of them returns null,
\* the call does not fail: it goes on to createProduct, that reference absent
C4_MissingAccountPassedThrough ==
    ( /\ Failures = {}
      /\ \E i \in DOMAIN log :
           log[i].op = "findAccountByName" /\ log[i].res = NullObj )
    => /\ pc # "failed"
       /\ pc = "createProduct" \/ log[Len(log)].op = "createProduct"

(* C5 *)

RefValue(ref) == IF TruthyObj(ref) THEN ref.value ELSE Null

\* the existing record differs from the target in one of the six compared fields
DiffersFromTarget(e) ==
    \/ RefValue(e.ParentRef) # RefValue(latest_product.ParentRef)
    \/ e.Name # product.name
    \/ e.Sku # product.sku
    \/ e.Description # product.description
    \/ e.UnitPrice # product.unit_price
    \/ e.PurchaseCost # product.purchase_cost

\* the updateProduct invocations of the call on the record of that Id
UpdatesOf(id) ==
    {i \in DOMAIN log : log[i].op = "updateProduct" /\ log[i].arg.Id = id}

\* C5: in a call that has ended and had resolved an existing record, that
\* record was updated exactly once, with the target fields and Active = true,
\* if it was inactive or differed from the target in one of {parent reference
\* value, name, SKU, description, unit price, purchase cost}, and was not
\* written otherwise
C5_UpdateDecision ==
    Ended =>
        \A i \in DOMAIN log :
            Resolves(log[i]) =>
                LET e == log[i].res IN
                IF ~e.Active \/ DiffersFromTarget(e)
                THEN /\ Cardinality(UpdatesOf(e.Id)) = 1
                     /\ \A j \in UpdatesOf(e.Id) :
                          /\ j = i + 1
                          /\ CarriesTarget(log[j].arg)
                          /\ log[j].arg.ParentRef = latest_product.ParentRef
                          /\ log[j].arg.Active = TRUE
                ELSE UpdatesOf(e.Id) = {}

\* an inactive record whose content equals the target's has been updated, and
\* the store holds it active
C5_Witness ==
    /\ pc = "done"
    /\ \E i \in DOMAIN log :
        /\ Resolves(log[i])
        /\ ~log[i].res.Active
        /\ ~DiffersFromTarget(log[i].res)
        /\ UpdatesOf(log[i].res.Id) # {}
        /\ items[log[i].res.Id].Active = TRUE

(* C6 *)

\* C6: createProduct is invoked at most once in a call, and neither it nor an
\* account lookup is invoked in a call in which a lookup resolved an existing
\* record
C6_CreateOrUpdate ==
    /\ Cardinality({i \in DOMAIN log : log[i].op = "createProduct"}) <= 1
    /\ \A i \in DOMAIN log :
         log[i].op \in {"createProduct", "findAccountByName"} =>
            /\ \A j \in DOMAIN log : ~Resolves(log[j])
            /\ \E j \in 1..(i - 1) :
                 log[j].op = "findProductBySKU" /\ log[j].res = NullObj

\* a call has created the product; another has ended on an existing record it
\* left unwritten
C6_Witness ==
    /\ pc = "done"
    /\ log[Len(log)].op = "createProduct"
    /\ ~IsFailed(log[Len(log)].res)

(* C7 *)

\* the effect of the successful write at position j of the log is in the store
StillInStore(c) ==
    CASE c.op = "createCategory" ->
            \E k \in DOMAIN categories : categories[k] = c.res /\ c.res.Name = c.arg
      [] c.op = "updateProduct" ->
            /\ items[c.arg.Id] = c.res
            /\ c.res.Name = c.arg.Name
            /\ c.res.Active = c.arg.Active
      [] c.op = "createProduct" ->
            \E k \in DOMAIN items : items[k] = c.res
      [] OTHER -> TRUE

\* C7: once a capability has failed the call has failed with that error, no
\* write capability is invoked after the failing step, and what the earlier
\* successful writes of the call stored is still in the store
C7_FailureNotRolledBack ==
    \A i \in Failures :
        /\ pc = "failed"
        /\ result = log[i].res.error
        /\ \A j \in DOMAIN log : j > i => log[j].op \notin WriteOps
        /\ \A j \in 1..(i - 1) : ~IsFailed(log[j].res) => StillInStore(log[j])

\* a call has failed after it had created the category and renamed the stale
\* record
C7_Witness ==
    /\ pc = "failed"
    /\ \E i, j, k \in DOMAIN log :
        /\ i < j /\ j < k
        /\ log[i].op = "createCategory" /\ ~IsFailed(log[i].res)
        /\ IsRenameOf(log[j], same_name_product) /\ ~IsFailed(log[j].res)
        /\ IsFailed(log[k].res)
        /\ items[same_name_product.Id].Name = "_" \o same_name_product.Sku
        /\ items[same_name_product.Id].Active = FALSE

----------------------------------------------------------------------------
(* validateProductVariants (src/unnamed/part_000), one action per element of
   the forEach and one for the return *)

MaxBatch == 3
MaxNameLen == 100

\* a string of n characters "a"
RECURSIVE Filler(_)
Filler(n) == IF n = 0 THEN "" ELSE "a" \o Filler(n - 1)

LongVendor == Filler(MaxNameLen - 5)

Option(value) == [value |-> value]
UnitCost(amount) == [unit_cost |-> [amount |-> amount]]
NoUnitCost == [unit_cost |-> NullObj]

\* vendor, title and selected options of the variants of a batch
NameShapes ==
    {<<"Acme", "Salsa", <<Option("Default Title")>> >>,
     <<"Acme", "Salsa", <<Option("Hot")>> >>,
     <<"", "Salsa", <<>> >>,
     <<"Acme", Null, <<>> >>,
     <<"_Acme", "Salsa", <<>> >>,
     <<LongVendor, "Salsa", <<>> >>}

\* sku, barcode, price and inventory item of the variants of a batch
RestShapes ==
    {<<"S1", "B1", "9.99", UnitCost("4.50")>>,
     <<"S2", "B1", "9.99", UnitCost("4.50")>>,
     <<"", Null, "", NoUnitCost>>,
     <<"constructor", "B2", "9.99", UnitCost("")>>}

VariantId(k) == "gid" \o ToString(k)

Variant(k, n, r) ==
    [id |-> VariantId(k), product_id |-> "p" \o ToString(k),
     vendor |-> n[1], title |-> n[2], selected_options |-> n[3],
     sku |-> r[1], barcode |-> r[2], price |-> r[3], inventory_item |-> r[4],
     product_type |-> "c1", taxable |-> TRUE]

\* the batches handed to validateProductVariants: ids are distinct
Batch(batch) ==
    \E n \in 0..MaxBatch :
        \E f \in [1..n -> NameShapes \X RestShapes] :
            batch = [k \in 1..n |-> Variant(k, f[k][1], f[k][2])]

\* the properties every object literal inherits from Object.prototype
ObjectPrototypeKeys ==
    {"constructor", "toString", "toLocaleString", "valueOf", "hasOwnProperty",
     "isPrototypeOf", "propertyIsEnumerable"}

\* what `${object[key]}` gives for an inherited function
InheritedFunction(key) ==
    "function " \o (IF key = "constructor" THEN "Object" ELSE key)
    \o "() { [native code] }"

\* let existing_names = {}
EmptyObject == [k \in {} |-> Undefined]

\* object[key], for a string key: an own property, else an inherited one
Lookup(object, key) ==
    IF key \in DOMAIN object THEN object[key]
    ELSE IF key \in ObjectPrototypeKeys THEN InheritedFunction(key)
    ELSE Undefined

\* object[key] = value
Put(object, key, value) == [k \in DOMAIN object \cup {key} |->
                               IF k = key THEN value ELSE object[k]]

\* the test for the empty string alone
EmptyStringOnly(x) == x = ""

\* !x || x == "" for a string-or-null-or-undefined x
Empty(x) == ~TruthyStr(x) \/ x = ""

\* name.startsWith("_")
StartsWithUnderscore(name) == Len(name) >= 1 /\ SubSeq(name, 1, 1) = "_"

RECURSIVE AppendOptions(_, _)
AppendOptions(name, options) ==
    IF options = <<>> THEN name
    ELSE AppendOptions(
            IF TruthyStr(Head(options).value) /\ Head(options).value # "Default Title"
            THEN name \o " " \o Head(options).value
            ELSE name,
            Tail(options))

\* the name without its options
VendorAndTitle(vendor, title, selected_options) == vendor \o " " \o title

generateProductName(vendor, title, selected_options) ==
    AppendOptions(vendor \o " " \o title, selected_options)

Error(code, message) == [code |-> code, message |-> message]

PriceErrors(v) ==
    IF Empty(v.price)
    THEN <<Error(100, "invalid price: price can't be empty")>>
    ELSE <<>>

CostMissing(inventory_item) ==
    \/ ~TruthyObj(inventory_item)
    \/ ~TruthyObj(inventory_item.unit_cost)
    \/ Empty(inventory_item.unit_cost.amount)

CostErrors(v) ==
    IF CostMissing(v.inventory_item)
    THEN <<Error(101, "invalid cost: cost can't be empty")>>
    ELSE <<>>

PresenceErrors(v) ==
    (IF Empty(v.vendor)
     THEN <<Error(102, "invalid vendor: vendor can't be empty")>> ELSE <<>>)
    \o
    (IF Empty(v.title)
     THEN <<Error(103, "invalid title: title can't be empty")>> ELSE <<>>)

ShapeErrors(name) ==
    (IF StartsWithUnderscore(name)
     THEN <<Error(104, "invalid name: name can't start with \"_\"")>> ELSE <<>>)
    \o
    (IF Len(name) > MaxNameLen
     THEN <<Error(105, "invalid name: name can't have more than 100 characters")>>
     ELSE <<>>)

\* the if/else of lines 145-152, 162-169 and 178-185: the key is in use, or
\* is recorded for this id
Duplicate(what, code, key, seen) ==
    IF TruthyStr(Lookup(seen, key))
    THEN <<Error(code, "duplicate " \o what \o ": " \o key \o "; the " \o what
                       \o " is already in use by product variant with id: "
                       \o Lookup(seen, key))>>
    ELSE <<>>

\* the id recorded on every occurrence: the last one wins
RecordLatest(key, id, seen) == Put(seen, key, id)

Record(key, id, seen) ==
    IF TruthyStr(Lookup(seen, key)) THEN seen ELSE Put(seen, key, id)

\* lines 110-154: the errors, and existing_names afterwards
NameChecked(v, names) == ~Empty(v.vendor) /\ ~Empty(v.title)

\* the condition of line 130 without the length
WellFormedWhateverLength(name) == ~StartsWithUnderscore(name)

WellFormed(name) == ~(StartsWithUnderscore(name) \/ Len(name) > MaxNameLen)

NameErrors(v, names) ==
    IF ~NameChecked(v, names) THEN PresenceErrors(v)
    ELSE LET name == generateProductName(v.vendor, v.title, v.selected_options) IN
         IF ~WellFormed(name) THEN ShapeErrors(name)
         ELSE Duplicate("name", 106, name, names)

NamesAfter(v, names) ==
    IF ~NameChecked(v, names) THEN names
    ELSE LET name == generateProductName(v.vendor, v.title, v.selected_options) IN
         IF ~WellFormed(name) THEN names
         ELSE Record(name, v.id, names)

\* lines 156-170
SkuErrors(v, skus) ==
    IF Empty(v.sku) THEN <<Error(107, "invalid sku: sku can't be empty")>>
    ELSE Duplicate("sku", 108, v.sku, skus)

SkusAfter(v, skus) == IF Empty(v.sku) THEN skus ELSE Record(v.sku, v.id, skus)

\* lines 172-186
BarcodeErrors(v, barcodes) ==
    IF Empty(v.barcode)
    THEN <<Error(109, "invalid barcode: barcode can't be empty")>>
    ELSE Duplicate("barcode", 110, v.barcode, barcodes)

BarcodesAfter(v, barcodes) ==
    IF Empty(v.barcode) THEN barcodes ELSE Record(v.barcode, v.id, barcodes)

\* the callback of variants.forEach, for the next element
ValidateVariant ==
    /\ report = NullObj
    /\ vidx < Len(variants)
    /\ LET v == variants[vidx + 1]
           errors == PriceErrors(v) \o CostErrors(v) \o NameErrors(v, existing_names)
                     \o SkuErrors(v, existing_skus)
                     \o BarcodeErrors(v, existing_barcodes)
       IN  /\ existing_names' = NamesAfter(v, existing_names)
           /\ existing_skus' = SkusAfter(v, existing_skus)
           /\ existing_barcodes' = BarcodesAfter(v, existing_barcodes)
           /\ results' = Append(results, [id |-> v.id, product_id |-> v.product_id,
                                          title |-> v.title, errors |-> errors])
    /\ vidx' = vidx + 1
    /\ UNCHANGED <<variants, report, storeVars, syncVars, restVars>>

\* the loop leaving after its first element, whatever that carries
AllPassedFirst(rs) == rs = <<>> \/ ~(Len(rs[1].errors) > 0)

\* let ok = true; for (const { errors } of results) ...
AllPassed(rs) == \A i \in DOMAIN rs : ~(Len(rs[i].errors) > 0)

\* lines 196-207: the batch flag and the return
ValidateReturn ==
    /\ report = NullObj
    /\ vidx = Len(variants)
    /\ report' = [ok |-> AllPassed(results), results |-> results]
    /\ UNCHANGED <<variants, vidx, existing_names, existing_skus, existing_barcodes,
                   results, storeVars, syncVars, restVars>>

SyncIdle ==
    /\ items = <<>>
    /\ categories = <<>>
    /\ accounts = AccountNames
    /\ pc = "idle"
    /\ product = NullObj
    /\ latest_category = NullObj
    /\ same_name_product = NullObj
    /\ existing_product = NullObj
    /\ account_refs = NoRefs
    /\ log = <<>>
    /\ result = "none"
    /\ repeat = FALSE
    /\ run = "none"
    /\ orig_items = <<>>
    /\ orig_categories = <<>>

InitValidate ==
    /\ Batch(variants)
    /\ vidx = 0
    /\ existing_names = EmptyObject
    /\ existing_skus = EmptyObject
    /\ existing_barcodes = EmptyObject
    /\ results = <<>>
    /\ report = NullObj
    /\ SyncIdle
    /\ FetchIdle
    /\ ParseIdle
    /\ PassIdle

NextValidate == ValidateVariant \/ ValidateReturn

SpecValidate == InitValidate /\ [][NextValidate]_vars

----------------------------------------------------------------------------
(* What the validator reported, read off its results *)

Codes(i) == {results[i].errors[k].code : k \in DOMAIN results[i].errors}

MessageOf(i, code) ==
    LET k == CHOOSE k \in DOMAIN results[i].errors : results[i].errors[k].code = code
    IN  results[i].errors[k].message

DuplicateMessage(what, key, id) ==
    "duplicate " \o what \o ": " \o key \o "; the " \o what
    \o " is already in use by product variant with id: " \o id

Present(x) == x # Null /\ x # Undefined /\ x # ""

\* the name of a variant that has a vendor and a title
NameOf(v) == generateProductName(v.vendor, v.title, v.selected_options)

Named(v) == Present(v.vendor) /\ Present(v.title)

ShapelyName(v) ==
    Named(v) /\ SubSeq(NameOf(v), 1, 1) # "_" /\ Len(NameOf(v)) <= MaxNameLen

\* the first position of the batch whose variant carries that sku / barcode / name
FirstWithSku(sku) ==
    CHOOSE j \in DOMAIN variants :
        variants[j].sku = sku /\ \A k \in 1..(j - 1) : variants[k].sku # sku

FirstWithBarcode(barcode) ==
    CHOOSE j \in DOMAIN variants :
        /\ variants[j].barcode = barcode
        /\ \A k \in 1..(j - 1) : variants[k].barcode # barcode

(* C8 *)

\* C8: a validated variant carries 108 exactly if its sku is non-empty and an
\* earlier variant of the batch has the same sku, 110 exactly if its barcode is
\* non-empty and an earlier variant has the same barcode, and the message names
\* the id of the first variant with that sku or barcode
C8_SkuBarcodeUniqueness ==
    \A i \in 1..vidx :
        LET v == variants[i] IN
        /\ 108 \in Codes(i) <=>
             (Present(v.sku) /\ \E j \in 1..(i - 1) : variants[j].sku = v.sku)
        /\ 108 \in Codes(i) =>
             MessageOf(i, 108) =
                DuplicateMessage("sku", v.sku, variants[FirstWithSku(v.sku)].id)
        /\ 110 \in Codes(i) <=>
             (Present(v.barcode)
                /\ \E j \in 1..(i - 1) : variants[j].barcode = v.barcode)
        /\ 110 \in Codes(i) =>
             MessageOf(i, 110) =
                DuplicateMessage("barcode", v.barcode,
                                 variants[FirstWithBarcode(v.barcode)].id)

(* C9 *)

\* C9 as stated: of any two variants with vendor and title present and the same
\* well-formed name, the earlier carries no 106 and the later carries 106 with
\* the earlier one's id
C9_AnyEarlierNamed ==
    \A i, j \in 1..vidx :
        ( /\ i < j
          /\ ShapelyName(variants[i]) /\ ShapelyName(variants[j])
          /\ NameOf(variants[i]) = NameOf(variants[j]) )
        => /\ 106 \notin Codes(i)
           /\ 106 \in Codes(j)
           /\ MessageOf(j, 106) =
                DuplicateMessage("name", NameOf(variants[j]), variants[i].id)

\* C9, amended: of two variants with vendor and title present and the same
\* well-formed name, the earlier being the first of the batch with that name,
\* the earlier carries no 106 and the later carries 106 with the earlier one's
\* id, whatever other errors the earlier one carries
C9_FirstNamed ==
    \A i, j \in 1..vidx :
        ( /\ i < j
          /\ ShapelyName(variants[i]) /\ ShapelyName(variants[j])
          /\ NameOf(variants[i]) = NameOf(variants[j])
          /\ \A k \in 1..(i - 1) :
                ~(ShapelyName(variants[k]) /\ NameOf(variants[k]) = NameOf(variants[i])) )
        => /\ 106 \notin Codes(i)
           /\ 106 \in Codes(j)
           /\ MessageOf(j, 106) =
                DuplicateMessage("name", NameOf(variants[j]), variants[i].id)

\* the first variant of a name carries 100, 101, 107 and 109, a second carries
\* 106, and a third of that name has been validated
C9_Witness ==
    /\ vidx = 3
    /\ ShapelyName(variants[1])
    /\ {100, 101, 107, 109} \subseteq Codes(1)
    /\ NameOf(variants[2]) = NameOf(variants[1])
    /\ NameOf(variants[3]) = NameOf(variants[1])
    /\ 106 \in Codes(2)
    /\ 106 \in Codes(3)

(* C10 *)

\* C10: no validated variant carries 102 or 103 together with 104, 105 or 106,
\* nor 106 together with 104 or 105; a variant whose name is longer than 100
\* characters carries 105 and not 106; and no malformed name is recorded in
\* existing_names
C10_RuleGroupsExclusive ==
    /\ \A i \in 1..vidx :
        /\ Codes(i) \cap {102, 103} = {} \/ Codes(i) \cap {104, 105, 106} = {}
        /\ 106 \notin Codes(i) \/ Codes(i) \cap {104, 105} = {}
        /\ (Named(variants[i]) /\ Len(NameOf(variants[i])) > MaxNameLen)
             => 105 \in Codes(i) /\ 106 \notin Codes(i)
    /\ \A name \in DOMAIN existing_names :
        SubSeq(name, 1, 1) # "_" /\ Len(name) <= MaxNameLen

\* two variants of the same over-long name have been validated
C10_Witness ==
    /\ vidx >= 2
    /\ Named(variants[1]) /\ Named(variants[2])
    /\ Len(NameOf(variants[1])) > MaxNameLen
    /\ NameOf(variants[2]) = NameOf(variants[1])
    /\ 105 \in Codes(2)
    /\ 106 \notin Codes(2)

----------------------------------------------------------------------------
(* The validator on variants whose fields are missing one by one *)

MaxRuleBatch == 1

\* vendor, title, sku, barcode, price and inventory item, each present, empty
\* or null independently of the others
RuleShapes ==
    {"", "Acme"} \X {Null, "Salsa"} \X {"", "S1"} \X {Null, "B1"}
    \X {"", Null, "9.99"}
    \X {NullObj, NoUnitCost, UnitCost(""), UnitCost(Null), UnitCost("4.50")}

RuleVariant(k, r) ==
    Variant(k, <<r[1], r[2], <<Option("Hot")>> >>, <<r[3], r[4], r[5], r[6]>>)

RuleBatch(batch) ==
    \E n \in 0..MaxRuleBatch :
        \E f \in [1..n -> RuleShapes] :
            batch = [k \in 1..n |-> RuleVariant(k, f[k])]

InitRules ==
    /\ RuleBatch(variants)
    /\ vidx = 0
    /\ existing_names = EmptyObject
    /\ existing_skus = EmptyObject
    /\ existing_barcodes = EmptyObject
    /\ results = <<>>
    /\ report = NullObj
    /\ SyncIdle
    /\ FetchIdle
    /\ ParseIdle
    /\ PassIdle

SpecRules == InitRules /\ [][NextValidate]_vars

(* C11 *)

\* the unit cost amount of the variant is there and not empty
CostPresent(v) ==
    /\ v.inventory_item # NullObj
    /\ v.inventory_item.unit_cost # NullObj
    /\ Present(v.inventory_item.unit_cost.amount)

\* how often the i-th result carries the code
Times(i, code) ==
    Cardinality({k \in DOMAIN results[i].errors : results[i].errors[k].code = code})

\* C11: a validated variant carries 100 exactly if its price is missing or
\* empty, 101 exactly if its unit cost amount is, 102 exactly if its vendor is,
\* 103 exactly if its title is, 107 exactly if its sku is and 109 exactly if
\* its barcode is, each whatever the others are, and carries no code twice
C11_PresenceRules ==
    \A i \in 1..vidx :
        LET v == variants[i] IN
        /\ 100 \in Codes(i) <=> ~Present(v.price)
        /\ 101 \in Codes(i) <=> ~CostPresent(v)
        /\ 102 \in Codes(i) <=> ~Present(v.vendor)
        /\ 103 \in Codes(i) <=> ~Present(v.title)
        /\ 107 \in Codes(i) <=> ~Present(v.sku)
        /\ 109 \in Codes(i) <=> ~Present(v.barcode)
        /\ \A code \in 100..110 : Times(i, code) <= 1

\* a variant whose price is null and whose title is missing, all else being
\* there, has been validated and carries 100 and 103 alone
C11_Witness ==
    /\ vidx = 1
    /\ variants[1].price = Null
    /\ variants[1].title = Null
    /\ Present(variants[1].vendor)
    /\ CostPresent(variants[1])
    /\ Codes(1) = {100, 103}

(* C12 *)

\* C12: the validator never stops short of its return; the results gathered
\* so far are those of the variants visited so far, in their order, each with
\* its variant's id, product_id and title; the report holds one result per
\* variant of the batch, and its ok is true exactly if every result has no
\* errors
C12_ReportShape ==
    /\ vidx <= Len(variants)
    /\ Len(results) = vidx
    /\ \A i \in 1..vidx :
         /\ results[i].id = variants[i].id
         /\ results[i].product_id = variants[i].product_id
         /\ results[i].title = variants[i].title
    /\ report # NullObj =>
         /\ report.results = results
         /\ Len(report.results) = Len(variants)
         /\ report.ok \in BOOLEAN
         /\ report.ok <=> \A i \in DOMAIN results : results[i].errors = <<>>

\* a batch of three has been reported: the first variant passed, the second
\* did not, and the report is not ok
C12_Witness ==
    /\ report # NullObj
    /\ Len(variants) = 3
    /\ Len(report.results) = 3
    /\ report.results[1].errors = <<>>
    /\ report.results[2].errors # <<>>
    /\ report.ok = FALSE

----------------------------------------------------------------------------
(* ShopifyEngine.getAllProductVariants (src/unnamed/part_000), one action per
   await of the loop *)

MaxPages == 3
MaxPageItems == 2

\* the nodes the variant query returns: with a unit cost, and without
Nodes ==
    {[id |-> "gid1", sku |-> "S1", barcode |-> "B1",
      selectedOptions |-> <<Option("Hot")>>, price |-> "9.99",
      inventoryItem |-> [unitCost |-> [currencyCode |-> "USD", amount |-> "4.50"]],
      taxable |-> TRUE,
      product |-> [id |-> "p1", title |-> "Salsa", vendor |-> "Acme",
                   productType |-> "c1"]],
     [id |-> "gid2", sku |-> "S2", barcode |-> Null,
      selectedOptions |-> <<Option("Default Title")>>, price |-> "5.00",
      inventoryItem |-> [unitCost |-> NullObj],
      taxable |-> FALSE,
      product |-> [id |-> "p2", title |-> "Chips", vendor |-> "Acme",
                   productType |-> ""]]}

NodeLists == UNION { [1..m -> Nodes] : m \in 0..MaxPageItems }

\* the chains of pages the shop may serve: every page but the last has an edge
\* whose cursor leads on
PageChain(chain) ==
    \E n \in 1..MaxPages :
        \E f \in [1..n -> NodeLists] :
            /\ \A k \in 1..(n - 1) : f[k] # <<>>
            /\ chain = f

\* the cursor of the j-th edge of the k-th page
EdgeCursor(k, j) == "cur" \o ToString(k) \o "_" \o ToString(j)

\* res.data.productVariants for the k-th page
ProductVariantsPage(k) ==
    [pageInfo |-> [hasNextPage |-> k < Len(pages)],
     edges |-> [j \in 1..Len(pages[k]) |->
                  [cursor |-> EdgeCursor(k, j), node |-> pages[k][j]]]]

\* the page productVariants(first: 100, after: $cursor) selects: the first for
\* no cursor, else the one after the page that cursor ends
PageAfter(cursor) ==
    IF \E k \in 1..(Len(pages) - 1) : cursor = EdgeCursor(k, Len(pages[k]))
    THEN 1 + CHOOSE k \in 1..(Len(pages) - 1) : cursor = EdgeCursor(k, Len(pages[k]))
    ELSE 1

\* const variables = cursor ? { cursor } : null
QueryVariables(cursor) == IF TruthyStr(cursor) THEN cursor ELSE Null

\* this.adminClient.query({ query: GET_PRODUCT_VARIANTS, variables }): the
\* client rejects on an error, so a result carries data
Query(variables) == [data |-> [productVariants |-> ProductVariantsPage(PageAfter(variables))]]

\* let parsed_variant = { ... }
ParsedVariant(node) ==
    [id |-> node.id,
     product_id |-> node.product.id,
     title |-> node.product.title,
     vendor |-> node.product.vendor,
     product_type |-> node.product.productType,
     sku |-> node.sku,
     barcode |-> node.barcode,
     price |-> node.price,
     selected_options |-> node.selectedOptions,
     inventory_item |->
        [unit_cost |-> IF TruthyObj(node.inventoryItem.unitCost)
                       THEN [amount |-> node.inventoryItem.unitCost.amount]
                       ELSE NullObj],
     taxable |-> node.taxable]

\* the items and the next cursor getProdutVariants makes of a result
getProdutVariants(res) ==
    LET pv == res.data.productVariants IN
    [items |-> [j \in 1..Len(pv.edges) |-> ParsedVariant(pv.edges[j].node)],
     next_cursor |-> IF pv.pageInfo.hasNextPage
                     THEN pv.edges[Len(pv.edges)].cursor
                     ELSE Null]

\* the list replaced by the page instead of extended by it
GatheredLatest(list, page_items) == page_items

\* product_variants.concat(items)
Gathered(list, page_items) == list \o page_items

\* getAllProductVariants is called and runs up to its first await
FetchStart ==
    /\ fetch_pc = "idle"
    /\ fetch_pc' = "getProdutVariants"
    /\ product_variants' = <<>>
    /\ current_cursor' = Null
    /\ UNCHANGED <<pages, fetches, fetched, storeVars, syncVars, validateVars,
                   origVars, parseVars, passVars>>

\* const { items, next_cursor } = await this.getProdutVariants(current_cursor),
\* and the rest of the loop body
GetProdutVariants ==
    /\ fetch_pc = "getProdutVariants"
    /\ fetches' = Append(fetches, QueryVariables(current_cursor))
    /\ \/ \E e \in Errors :
            /\ fetch_pc' = "failed"
            /\ fetched' = Failed(e)
            /\ UNCHANGED <<product_variants, current_cursor>>
       \/ LET page == getProdutVariants(Query(QueryVariables(current_cursor))) IN
            /\ product_variants' = Gathered(product_variants, page.items)
            /\ current_cursor' = page.next_cursor
            /\ IF ~TruthyStr(current_cursor')
               THEN /\ fetch_pc' = "done"
                    /\ fetched' = [items |-> product_variants']
               ELSE UNCHANGED <<fetch_pc, fetched>>
    /\ UNCHANGED <<pages, storeVars, syncVars, validateVars, origVars, parseVars,
                   passVars>>

InitFetch ==
    /\ PageChain(pages)
    /\ fetch_pc = "idle"
    /\ product_variants = <<>>
    /\ current_cursor = Null
    /\ fetches = <<>>
    /\ fetched = NullObj
    /\ SyncIdle
    /\ ValidateIdle
    /\ ParseIdle
    /\ PassIdle

NextFetch == FetchStart \/ GetProdutVariants

SpecFetch == InitFetch /\ [][NextFetch]_vars

(* C13 *)

\* the cursor the k-th fetch is to carry: none for the first, then the cursor
\* of the last edge of the page before
ExpectedCursor(k) ==
    IF k = 1 THEN Null ELSE EdgeCursor(k - 1, Len(pages[k - 1]))

\* the variants of the pages k..n, page after page, nothing left out
RECURSIVE ItemsFrom(_)
ItemsFrom(k) ==
    IF k > Len(pages) THEN <<>>
    ELSE [j \in 1..Len(pages[k]) |-> ParsedVariant(pages[k][j])] \o ItemsFrom(k + 1)

\* C13: against a chain of n pages the loop fetches at most n times, the k-th
\* time with the cursor page k - 1 returned and the first time with none, and
\* is still to fetch only while fewer than n fetches are made; when it returns
\* it has fetched exactly n times and returns the variants of all pages in
\* page order, repeated ones included; when a fetch fails it ends at that
\* fetch with the failure and returns no list
C13_Pagination ==
    /\ Len(fetches) <= Len(pages)
    /\ \A k \in DOMAIN fetches : fetches[k] = ExpectedCursor(k)
    /\ fetch_pc = "getProdutVariants" => Len(fetches) < Len(pages) /\ fetched = NullObj
    /\ fetch_pc = "done" =>
         /\ Len(fetches) = Len(pages)
         /\ fetched = [items |-> ItemsFrom(1)]
    /\ fetch_pc = "failed" =>
         /\ IsFailed(fetched)
         /\ "items" \notin DOMAIN fetched

\* three pages have been fetched and returned, the variant of the first page
\* being on the third again
C13_Witness ==
    /\ fetch_pc = "done"
    /\ Len(pages) = 3
    /\ Len(fetches) = 3
    /\ pages[1] # <<>> /\ pages[3] # <<>>
    /\ pages[3][1] = pages[1][1]
    /\ Len(fetched.items) = Len(pages[1]) + Len(pages[2]) + Len(pages[3])

----------------------------------------------------------------------------
(* parseProduct (src/unnamed/part_000). Numbers are written as JavaScript
   prints them: "4.5", "0", "NaN" *)

Digits == {"0", "1", "2", "3", "4", "5", "6", "7", "8", "9"}
NaN == "NaN"

\* how many characters of s, from the i read so far, make a decimal literal:
\* digits with at most one dot
RECURSIVE LiteralEnd(_, _, _)
LiteralEnd(s, i, dotted) ==
    IF i = Len(s) THEN i
    ELSE LET c == SubSeq(s, i + 1, i + 1) IN
         IF c \in Digits THEN LiteralEnd(s, i + 1, dotted)
         ELSE IF c = "." /\ ~dotted THEN LiteralEnd(s, i + 1, TRUE)
         ELSE i

\* the position of the dot of a literal, or one past its end
RECURSIVE DotAt(_, _)
DotAt(lit, i) ==
    IF i > Len(lit) \/ SubSeq(lit, i, i) = "." THEN i ELSE DotAt(lit, i + 1)

RECURSIVE WithoutLeadingZeros(_)
WithoutLeadingZeros(d) ==
    IF Len(d) > 1 /\ SubSeq(d, 1, 1) = "0"
    THEN WithoutLeadingZeros(SubSeq(d, 2, Len(d))) ELSE d

RECURSIVE WithoutTrailingZeros(_)
WithoutTrailingZeros(d) ==
    IF Len(d) > 0 /\ SubSeq(d, Len(d), Len(d)) = "0"
    THEN WithoutTrailingZeros(SubSeq(d, 1, Len(d) - 1)) ELSE d

\* parseFloat(x): the number the longest decimal prefix of String(x) denotes,
\* NaN when there is none
parseFloat(x) ==
    LET lit == SubSeq(x, 1, LiteralEnd(x, 0, FALSE))
        dot == DotAt(lit, 1)
        whole == SubSeq(lit, 1, dot - 1)
        fraction == WithoutTrailingZeros(SubSeq(lit, dot + 1, Len(lit)))
    IN  IF whole = "" /\ SubSeq(lit, dot + 1, Len(lit)) = "" THEN NaN
        ELSE WithoutLeadingZeros(IF whole = "" THEN "0" ELSE whole)
             \o (IF fraction = "" THEN "" ELSE "." \o fraction)

\* `${name}, barcode: ${barcode}`
generateProductDescription(name, barcode) == name \o ", barcode: " \o barcode

\* the cost read whenever there is a unit cost object, as line 244 does
parseProduct(v) ==
    LET name == generateProductName(v.vendor, v.title, v.selected_options)
        description == generateProductDescription(name, v.barcode)
        unit_price == IF TruthyStr(v.price) THEN parseFloat(v.price) ELSE Null
        purchase_cost == IF TruthyObj(v.inventory_item.unit_cost)
                         THEN parseFloat(v.inventory_item.unit_cost.amount)
                         ELSE Null
    IN  [name |-> name,
         category |-> v.product_type,
         sku |-> v.sku,
         description |-> description,
         unit_price |-> unit_price,
         purchase_cost |-> purchase_cost,
         taxable |-> v.taxable]

OptionLists ==
    {<<>>,
     <<Option("Default Title")>>,
     <<Option("Hot")>>,
     <<Option("Hot"), Option("Large")>>,
     <<Option(""), Option("Default Title"), Option("Hot")>>,
     <<Option(Null), Option("Large"), Option("Large")>>}

\* the variants handed to parseProduct
ParseVariants ==
    { [Variant(1, <<vendor, title, options>>, <<"S1", barcode, price, item>>)
         EXCEPT !.product_type = type, !.taxable = taxable] :
        vendor \in {"Acme", ""}, title \in {"Salsa", Null},
        options \in OptionLists, barcode \in {"B1", Null},
        price \in {"9.99", "0", "", Null},
        item \in {UnitCost("4.50"), UnitCost(""), UnitCost(Null), NoUnitCost},
        type \in {"c1", ""}, taxable \in BOOLEAN }

\* parseProduct(variant)
ParseProduct ==
    /\ parsed = NullObj
    /\ parsed' = parseProduct(variant)
    /\ UNCHANGED <<variant, storeVars, syncVars, validateVars, origVars, fetchVars,
                   passVars>>

InitParse ==
    /\ variant \in ParseVariants
    /\ parsed = NullObj
    /\ SyncIdle
    /\ ValidateIdle
    /\ FetchIdle
    /\ PassIdle

SpecParse == InitParse /\ [][ParseProduct]_vars

(* C14 *)

\* the numbers the prices and amounts handed over denote
NumberOf(x) ==
    CASE x = "9.99" -> "9.99"
      [] x = "4.50" -> "4.5"
      [] x = "0" -> "0"

\* C14: the parsed product has unit_price null if the price is absent or
\* empty and the number the price denotes otherwise, purchase_cost null if
\* the unit cost or its amount is absent or empty and the number the amount
\* denotes otherwise, and the variant's category, sku and taxable flag
C14_ParserCoercion ==
    parsed # NullObj =>
        /\ parsed.unit_price =
             IF Present(variant.price) THEN NumberOf(variant.price) ELSE Null
        /\ parsed.purchase_cost =
             IF CostPresent(variant)
             THEN NumberOf(variant.inventory_item.unit_cost.amount) ELSE Null
        /\ parsed.category = variant.product_type
        /\ parsed.sku = variant.sku
        /\ parsed.taxable = variant.taxable

\* the same with the purchase cost left out: the part of C14 the code meets
C14_PriceAndPassThrough ==
    parsed # NullObj =>
        /\ parsed.unit_price =
             IF Present(variant.price) THEN NumberOf(variant.price) ELSE Null
        /\ (CostPresent(variant) \/ variant.inventory_item.unit_cost = NullObj) =>
             parsed.purchase_cost =
                IF CostPresent(variant)
                THEN NumberOf(variant.inventory_item.unit_cost.amount) ELSE Null
        /\ parsed.category = variant.product_type
        /\ parsed.sku = variant.sku
        /\ parsed.taxable = variant.taxable

(* C15 *)

\* the option values that are not empty and not "Default Title", in order
RECURSIVE KeptValues(_)
KeptValues(options) ==
    IF options = <<>> THEN <<>>
    ELSE (IF Present(options[1].value) /\ options[1].value # "Default Title"
          THEN <<options[1].value>> ELSE <<>>)
         \o KeptValues(Tail(options))

RECURSIVE JoinedBySpaces(_)
JoinedBySpaces(words) ==
    IF Len(words) = 1 THEN words[1]
    ELSE words[1] \o " " \o JoinedBySpaces(Tail(words))

\* C15: the parsed product's name is the vendor, the title and every option
\* value that is neither empty nor "Default Title", in order, joined by single
\* spaces, and its description is that name, ", barcode: " and the barcode
C15_NameGeneration ==
    parsed # NullObj =>
        /\ parsed.name =
             JoinedBySpaces(<<variant.vendor, variant.title>>
                            \o KeptValues(variant.selected_options))
        /\ parsed.description = parsed.name \o ", barcode: " \o variant.barcode

\* a variant with an empty option, "Default Title" and "Hot" has been parsed
C15_Witness ==
    /\ parsed # NullObj
    /\ variant.selected_options = <<Option(""), Option("Default Title"), Option("Hot")>>
    /\ parsed.name = "Acme Salsa Hot"
    /\ parsed.description = "Acme Salsa Hot, barcode: B1"

----------------------------------------------------------------------------
(* C16 *)

CategoryOps == {"findCategoryByName", "createCategory"}

\* the call is past its category step
PastCategory ==
    pc \in {"findProductByName", "renameProduct", "findProductBySKU", "updateProduct",
            "resolveAccountRefs", "createProduct", "done"}

\* the category lookups and creations of the call are as C16 has them: none
\* without a category; with one, a single lookup that opens the call, and a
\* creation exactly after a lookup that returned nothing
CategoryCalls ==
    IF ~TruthyStr(product.category)
    THEN \A i \in DOMAIN log : log[i].op \notin CategoryOps
    ELSE /\ \A i \in DOMAIN log : log[i].op = "findCategoryByName" => i = 1
         /\ PastCategory => Len(log) >= 1 /\ log[1].op = "findCategoryByName"
         /\ \A i \in DOMAIN log :
              log[i].op = "createCategory" =>
                 i = 2 /\ log[1].op = "findCategoryByName" /\ log[1].res = NullObj
         /\ (PastCategory /\ log[1].res = NullObj) =>
              log[2].op = "createCategory" /\ ~IsFailed(log[2].res)

\* the category the call resolved: the one found, else the one created
ResolvedCategory == IF TruthyObj(log[1].res) THEN log[1].res ELSE log[2].res

\* C16: a call for a product without a category invokes no category
\* capability and its target has SubItem false and no parent reference; a call
\* for a product with a category looks the category up once, creates it
\* exactly if the lookup returned nothing, and its target has SubItem true and
\* a parent reference that carries the Id and the name of the category resolved
C16_CategoryHandling ==
    pc # "idle" =>
        /\ CategoryCalls
        /\ PastCategory =>
             IF ~TruthyStr(product.category)
             THEN /\ latest_product.SubItem = FALSE
                  /\ latest_product.ParentRef = NullObj
             ELSE /\ \E k \in DOMAIN categories : categories[k] = ResolvedCategory
                  /\ ResolvedCategory.Name = product.category
                  /\ latest_product.SubItem = TRUE
                  /\ latest_product.ParentRef =
                       [value |-> ResolvedCategory.Id, name |-> ResolvedCategory.Name]

\* the part of C16 the code meets: the lookups and creations, SubItem, and a
\* parent reference being there or not
C16_CategoryResolved ==
    pc # "idle" =>
        /\ CategoryCalls
        /\ PastCategory =>
             IF ~TruthyStr(product.category)
             THEN /\ latest_product.SubItem = FALSE
                  /\ latest_product.ParentRef = NullObj
             ELSE /\ \E k \in DOMAIN categories : categories[k] = ResolvedCategory
                  /\ ResolvedCategory.Name = product.category
                  /\ latest_product.SubItem = TRUE
                  /\ TruthyObj(latest_product.ParentRef)

(* C17 *)

\* the name lookup at that position returned nothing
NameFree(c) ==
    c.op = "findProductByName" /\ ~IsFailed(c.res) /\ c.res = NullObj

\* the name lookup at that position returned an item with the target SKU
NameResolves(c) ==
    c.op = "findProductByName" /\ Resolves(c)

\* C17: when the name lookup returns an item with the target SKU, that item is
\* the record reconciled and the SKU lookup is not invoked in the call; the
\* SKU lookup is invoked exactly after a name lookup that returned nothing, or
\* after the rename that follows a name lookup returning an item of another
\* SKU; and a call in which either lookup resolved a record invokes no
\* createProduct
C17_LookupPrecedence ==
    \A i \in DOMAIN log :
        /\ NameResolves(log[i]) =>
             /\ existing_product = log[i].res
             /\ \A j \in DOMAIN log : log[j].op # "findProductBySKU"
        /\ log[i].op = "findProductBySKU" =>
             \/ i > 1 /\ NameFree(log[i - 1])
             \/ /\ i > 2
                /\ Collides(log[i - 2])
                /\ IsRenameOf(log[i - 1], log[i - 2].res)
                /\ ~IsFailed(log[i - 1].res)
        /\ NameFree(log[i]) =>
             /\ Ended => i < Len(log)
             /\ i < Len(log) => log[i + 1].op = "findProductBySKU"
        /\ ( /\ Collides(log[i])
             /\ i < Len(log)
             /\ ~IsFailed(log[i + 1].res) ) =>
             /\ Ended => i + 1 < Len(log)
             /\ i + 1 < Len(log) => log[i + 2].op = "findProductBySKU"
        /\ Resolves(log[i]) =>
             \A j \in DOMAIN log : log[j].op \notin {"createProduct", "findAccountByName"}

\* a call has ended in which the name lookup returned an item of another SKU,
\* the item was renamed, and the SKU lookup then resolved a record
C17_Witness ==
    /\ pc = "done"
    /\ \E i \in DOMAIN log :
        /\ Collides(log[i])
        /\ i + 2 <= Len(log)
        /\ ~IsFailed(log[i + 1].res)
        /\ log[i + 2].op = "findProductBySKU"
        /\ Resolves(log[i + 2])
        /\ existing_product = log[i + 2].res

----------------------------------------------------------------------------
(* syncProduct run from start to end with no capability failing *)

\* the store syncProduct(p) leaves behind when it is run on the store of items
\* its and categories cats and every capability succeeds
SyncOutcome(its, cats, p) ==
    LET found_category == FirstOf(cats, {i \in DOMAIN cats : cats[i].Name = p.category})
        cats1 == IF TruthyStr(p.category) /\ ~TruthyObj(found_category)
                 THEN Append(cats, [Id |-> CategoryId(Len(cats) + 1),
                                    Name |-> p.category, Type |-> "Category"])
                 ELSE cats
        category == IF ~TruthyStr(p.category) THEN NullObj
                    ELSE IF TruthyObj(found_category) THEN found_category
                    ELSE cats1[Len(cats1)]
        latest == LatestProduct(p, category)
        same_name == FirstOf(its, {i \in DOMAIN its : its[i].Name = latest.Name})
        yields == TruthyObj(same_name) /\ ~SameSku(same_name, latest)
        its1 == IF yields
                THEN [its EXCEPT ![same_name.Id] = StoreItem(RenamedProduct(same_name))]
                ELSE its
        existing == IF TruthyObj(same_name) /\ SameSku(same_name, latest)
                    THEN same_name
                    ELSE FirstOf(its1, {i \in DOMAIN its1 : its1[i].Sku = latest.Sku})
        refs == AccountRefs({findAccountByName(name) : name \in AccountNames})
        its2 == IF TruthyObj(existing)
                THEN IF NeedsUpdate(existing, latest)
                     THEN [its1 EXCEPT ![existing.Id] =
                              StoreItem(UpdatedProduct(existing, latest))]
                     ELSE its1
                ELSE Append(its1, StoreItem(Spread(CreatedProduct(latest, refs),
                                                   [Id |-> Len(its1) + 1])))
    IN  [items |-> its2, categories |-> cats1]

(* C18 *)

\* what C18 compares of an item
ComparedFields ==
    {"Id", "Name", "Sku", "Description", "PurchaseDesc", "UnitPrice", "PurchaseCost",
     "Taxable", "SubItem", "ParentRef", "Active"}

Compared(its) == [k \in DOMAIN its |-> [f \in ComparedFields |-> its[k][f]]]

\* the store an unfailing syncProduct(product) makes of the store the first
\* call was started on
Uninterrupted == SyncOutcome(orig_items, orig_categories, product)

\* C18: when the first call of syncProduct(p) on a store has failed and the
\* call that follows it has completed successfully, the store holds the items
\* (name, SKU, content, active flag) and categories that a call of
\* syncProduct(p) in which nothing fails leaves behind on the original store;
\* and a first call that completes does leave that store behind
C18_RetryConverges ==
    (pc = "done" /\ run \in {"first", "retry"}) =>
        /\ Compared(items) = Compared(Uninterrupted.items)
        /\ categories = Uninterrupted.categories

\* the first call created the category and renamed the item that held the
\* name before it failed, and the call after it has completed
C18_Witness ==
    /\ pc = "done"
    /\ run = "retry"
    /\ orig_categories = <<>>
    /\ log[1].op = "findCategoryByName" /\ TruthyObj(log[1].res)
    /\ \E k \in DOMAIN orig_items :
         /\ orig_items[k].Name = product.name
         /\ orig_items[k].Sku # product.sku
         /\ items[k].Name = "_" \o orig_items[k].Sku
    /\ NameFree(log[2])
    /\ items # orig_items

----------------------------------------------------------------------------
(* syncProduct called again and again, for any product, on one store *)

SeqSkus == {"S1", "S2", "S3"}
SeqNames == ProductNames \cup {"_S1", "_S2"}

\* the products of the calls: none is named with a leading "_"
SeqProducts ==
    [name : ProductNames, category : {Null}, sku : SeqSkus,
     description : {"d1"}, unit_price : {"1"}, purchase_cost : {"1"},
     taxable : {TRUE}]

\* the stores the calls start on, of at most n items: names are pairwise
\* distinct and so are SKUs, and an item under a name with a leading "_" is
\* inactive, as a rename leaves it
SeqStore(store, n) ==
    \E m \in 0..n :
        \E g \in [1..m -> SeqNames \X SeqSkus] :
            /\ \A j, k \in 1..m : j # k => g[j][1] # g[k][1] /\ g[j][2] # g[k][2]
            /\ store = [k \in 1..m |->
                          Item(k, g[k][1], g[k][2], "d0", "d0", "1", "1", TRUE,
                               NullObj, ~StartsWithUnderscore(g[k][1]))]

\* syncProduct(p) is called, for any p, once the call before it has returned
SyncStartAny ==
    /\ pc \in {"idle", "done", "failed"}
    /\ \E p \in SeqProducts :
        /\ product' = p
        /\ pc' = IF TruthyStr(p.category) THEN "findCategoryByName"
                 ELSE "findProductByName"
    /\ repeat' = FALSE
    /\ run' = "other"
    /\ latest_category' = NullObj
    /\ same_name_product' = NullObj
    /\ existing_product' = NullObj
    /\ account_refs' = NoRefs
    /\ log' = <<>>
    /\ result' = "none"
    /\ UNCHANGED <<storeVars, validateVars, restVars>>

InitSeq ==
    /\ SeqStore(items, MaxInitItems)
    /\ accounts = AccountNames
    /\ categories = <<>>
    /\ pc = "idle"
    /\ product = NullObj
    /\ latest_category = NullObj
    /\ same_name_product = NullObj
    /\ existing_product = NullObj
    /\ account_refs = NoRefs
    /\ log = <<>>
    /\ result = "none"
    /\ repeat = FALSE
    /\ run = "none"
    /\ orig_items = items
    /\ orig_categories = categories
    /\ ValidateIdle
    /\ FetchIdle
    /\ ParseIdle
    /\ PassIdle

NextSeq ==
    \/ SyncStartAny
    \/ FindProductByName
    \/ RenameProduct
    \/ FindProductBySKU
    \/ UpdateProduct
    \/ ResolveAccountRefs
    \/ CreateProduct

SpecSeq == InitSeq /\ [][NextSeq]_vars

(* C19 *)

SkusDistinct ==
    \A j, k \in DOMAIN items : j # k => items[j].Sku # items[k].Sku

\* a step keeps every item, under its Id and with its SKU, and adds an item
\* only of the target SKU and only when no item carries that SKU
ItemsKept ==
    /\ \A k \in DOMAIN items :
         /\ k \in DOMAIN items'
         /\ items'[k].Id = items[k].Id
         /\ items'[k].Sku = items[k].Sku
    /\ Len(items') # Len(items) =>
         /\ Len(items') = Len(items) + 1
         /\ items'[Len(items')].Sku = product.sku
         /\ \A k \in DOMAIN items : items[k].Sku # product.sku

\* C19: on a store whose SKUs are pairwise distinct, through any sequence of
\* calls of syncProduct, completed or failed, no step changes the SKU of an
\* item or removes an item, an item is created only when none carries the
\* target SKU, and the SKUs stay pairwise distinct
C19_SkuInvariant == [](SkusDistinct) /\ [][ItemsKept]_vars

\* after a failed call the store holds an item more than at the start, and
\* its first item has yielded its name
C19_Witness ==
    /\ pc = "failed"
    /\ Len(orig_items) >= 1
    /\ Len(items) > Len(orig_items)
    /\ items[1].Name # orig_items[1].Name
    /\ items[1].Name = "_" \o items[1].Sku

(* C20 *)

\* the names of the original store that begin with "_" are "_" + the SKU of
\* the item itself
OrigWellNamed ==
    \A k \in DOMAIN orig_items :
        StartsWithUnderscore(orig_items[k].Name) =>
            orig_items[k].Name = "_" \o orig_items[k].Sku

NamesDistinct ==
    \A j, k \in DOMAIN items : j # k => items[j].Name # items[k].Name

\* C20: on a store whose names and SKUs are pairwise distinct and whose names
\* with a leading "_" are "_" + the item's own SKU, through any sequence of
\* calls for products not named with a leading "_", no two items share a
\* name, the name a rename is about to give is held by no other item, and no
\* write is refused for its name
C20_NameInvariant ==
    OrigWellNamed =>
        /\ NamesDistinct
        /\ pc = "renameProduct" =>
             ~NameTaken("_" \o same_name_product.Sku, same_name_product.Id)
        /\ pc = "updateProduct" => ~NameTaken(product.name, existing_product.Id)
        /\ pc = "createProduct" => ~NameTaken(product.name, 0)
        /\ result # "DuplicateName"

\* two items have yielded their names, one after the other, and a call has
\* completed since
C20_Witness ==
    /\ OrigWellNamed
    /\ pc = "done"
    /\ \E j, k \in DOMAIN items :
         /\ j # k
         /\ items[j].Name = "_" \o items[j].Sku
         /\ items[k].Name = "_" \o items[k].Sku
         /\ j \in DOMAIN orig_items /\ orig_items[j].Name # items[j].Name
         /\ k \in DOMAIN orig_items /\ orig_items[k].Name # items[k].Name

\* without the premise on the names with a leading "_" a rename is refused:
\* the store holds another item under "_" + the SKU of the item to rename
C20_RefusedOtherwise ==
    /\ ~OrigWellNamed
    /\ result = "DuplicateName"
    /\ IsRenameOf(log[Len(log)], same_name_product)

----------------------------------------------------------------------------
(* One pass: a batch is validated, then syncProduct is run on the parsed
   product of each of its variants, one call after the other, in any order *)

MaxPassBatch == 3

PassTitles == {"Salsa", "Chips"}
PassNames == {"Acme Salsa", "Acme Chips", "_S1"}

\* a variant that lacks nothing; its barcode is its own
PassVariant(k, title, sku) ==
    [Variant(k, <<"Acme", title, <<>> >>,
             <<sku, "B" \o ToString(k), "9.99", UnitCost("4.50")>>)
        EXCEPT !.product_type = ""]

\* the batches of a pass: names and SKUs may repeat
PassBatch(batch) ==
    \E n \in 1..MaxPassBatch :
        \E f \in [1..n -> PassTitles \X Skus] :
            batch = [k \in 1..n |-> PassVariant(k, f[k][1], f[k][2])]

\* the stores a pass starts on, of at most n items: names are pairwise
\* distinct, SKUs need not be, and an item under a name with a leading "_" is
\* inactive
PassStore(store, n) ==
    \E m \in 0..n :
        \E g \in [1..m -> PassNames \X Skus] :
            /\ \A j, k \in 1..m : j # k => g[j][1] # g[k][1]
            /\ store = [k \in 1..m |->
                          Item(k, g[k][1], g[k][2], "d0", "d0", "9.99", "4.5", TRUE,
                               NullObj, ~StartsWithUnderscore(g[k][1]))]

\* the ledgers a pass may meet: complete, or without the asset account
PassAccounts == {AccountNames, AccountNames \ {AssetAccount}}

\* the item the call that has just completed resolved or created
ReconciledId ==
    IF TruthyObj(existing_product) THEN existing_product.Id ELSE Len(items)

\* the positions of the batch not yet handed to syncProduct
Unsynced == DOMAIN variants \ {synced[k] : k \in DOMAIN synced}

\* syncProduct(parseProduct(v)) is called for a variant v of the validated
\* batch that has not had its turn, once the call before it has completed
PassSync ==
    /\ report # NullObj
    /\ pc \in {"idle", "done"}
    /\ \E i \in Unsynced :
        LET p == parseProduct(variants[i]) IN
        /\ synced' = Append(synced, i)
        /\ product' = p
        /\ pc' = IF TruthyStr(p.category) THEN "findCategoryByName"
                 ELSE "findProductByName"
    /\ reconciled' = IF pc = "done" THEN reconciled \cup {ReconciledId} ELSE reconciled
    /\ repeat' = FALSE
    /\ run' = "other"
    /\ latest_category' = NullObj
    /\ same_name_product' = NullObj
    /\ existing_product' = NullObj
    /\ account_refs' = NoRefs
    /\ log' = <<>>
    /\ result' = "none"
    /\ UNCHANGED <<storeVars, validateVars, origVars, fetchVars, parseVars>>

InitPass ==
    /\ PassBatch(variants)
    /\ vidx = 0
    /\ existing_names = EmptyObject
    /\ existing_skus = EmptyObject
    /\ existing_barcodes = EmptyObject
    /\ results = <<>>
    /\ report = NullObj
    /\ PassStore(items, MaxInitItems)
    /\ accounts \in PassAccounts
    /\ categories = <<>>
    /\ pc = "idle"
    /\ product = NullObj
    /\ latest_category = NullObj
    /\ same_name_product = NullObj
    /\ existing_product = NullObj
    /\ account_refs = NoRefs
    /\ log = <<>>
    /\ result = "none"
    /\ repeat = FALSE
    /\ run = "none"
    /\ orig_items = items
    /\ orig_categories = categories
    /\ FetchIdle
    /\ ParseIdle
    /\ PassIdle

NextPass ==
    \/ ValidateVariant
    \/ ValidateReturn
    \/ PassSync
    \/ FindProductByName
    \/ RenameProduct
    \/ FindProductBySKU
    \/ UpdateProduct
    \/ ResolveAccountRefs
    \/ CreateProduct

SpecPass == InitPass /\ [][NextPass]_vars

(* C21 *)

\* the positions of the batch whose call has completed, in their order
CompletedCalls == IF pc = "done" THEN Len(synced) ELSE Len(synced) - 1

ProductOf(k) == parseProduct(variants[synced[k]])

\* the store holds an active item with the product's name and SKU
HasActiveItem(p) ==
    \E k \in DOMAIN items :
        items[k].Name = p.name /\ items[k].Sku = p.sku /\ items[k].Active = TRUE

\* the store holds the product's item parked: inactive, under "_" + its SKU
HasParkedItem(p) ==
    \E k \in DOMAIN items :
        items[k].Sku = p.sku /\ items[k].Name = "_" \o p.sku /\ items[k].Active = FALSE

\* no call of the pass writes an item of an earlier call of the pass inactive
\* or under a parked name, every product whose call has completed has an
\* active item of its name and SKU, and a call fails only where a capability
\* fails, so that the pass goes through the whole batch
PassKeepsItsItems ==
    /\ \A i \in DOMAIN log :
         ( /\ log[i].op = "updateProduct"
           /\ log[i].arg.Active = FALSE \/ StartsWithUnderscore(log[i].arg.Name) )
         => log[i].arg.Id \notin reconciled
    /\ \A id \in reconciled :
         items[id].Active = TRUE /\ ~StartsWithUnderscore(items[id].Name)
    /\ \A k \in 1..CompletedCalls : HasActiveItem(ProductOf(k))
    /\ Failures = {} => pc # "failed"

\* of two products of the pass with one name and two SKUs, the earlier one's
\* item is parked once the later one's call has completed
PassParksTheEarlier ==
    \A j, k \in 1..CompletedCalls :
        ( /\ j < k
          /\ ProductOf(j).name = ProductOf(k).name
          /\ ProductOf(j).sku # ProductOf(k).sku )
        => HasParkedItem(ProductOf(j))

\* C21: in a pass over a batch that validateProductVariants reported ok, in
\* any order and from any store, no call renames or deactivates an item an
\* earlier call of the pass created or updated, and every product of the
\* batch ends with an active item of its name and SKU; and of two products of
\* a pass with the same name and different SKUs the earlier one's item is left
\* inactive and renamed
C21_NoCannibalism ==
    /\ (report # NullObj /\ report.ok) => PassKeepsItsItems
    /\ PassParksTheEarlier

\* no later call of the pass was for a product of the SKU of the j-th: such a
\* call takes the item over under its own name, and active
NotTakenOver(j) ==
    \A m \in (j + 1)..CompletedCalls : ProductOf(m).sku # ProductOf(j).sku

\* of two products of the pass with one name and two SKUs, the earlier one's
\* item is parked once the later one's call has completed, unless another
\* call has taken the item over
PassParksTheHolder ==
    \A j, k \in 1..CompletedCalls :
        ( /\ j < k
          /\ ProductOf(j).name = ProductOf(k).name
          /\ ProductOf(j).sku # ProductOf(k).sku
          /\ NotTakenOver(j) )
        => HasParkedItem(ProductOf(j))

\* the part of C21 the code meets: the same on a store that holds the three
\* ledger accounts, the earlier item being parked unless another product of
\* the pass has taken it over
C21_WithAccounts ==
    accounts = AccountNames =>
        /\ (report # NullObj /\ report.ok) => PassKeepsItsItems
        /\ PassParksTheHolder

\* on a store that holds the three ledger accounts a batch that was reported
\* ok is kept whole, and C21 fails on such a store by its last part alone
C21_OkBatchWithAccounts ==
    (accounts = AccountNames /\ report # NullObj /\ report.ok) => PassKeepsItsItems

\* a pass over a batch of two that was reported ok has completed on a store
\* that held both names under the other product's SKU
C21_PassCompleted ==
    /\ report # NullObj /\ report.ok
    /\ Len(variants) = 2
    /\ CompletedCalls = 2
    /\ Len(orig_items) = 2
    /\ \A k \in 1..2 :
         \E j \in DOMAIN orig_items :
            /\ orig_items[j].Name = ProductOf(k).name
            /\ orig_items[j].Sku # ProductOf(k).sku
    /\ HasActiveItem(ProductOf(1))
    /\ HasActiveItem(ProductOf(2))

====
